---- MODULE Spec2Model ----
(***************************************************************************)
(* Model of the HTTP availability benchmark in its two variants:           *)
(*   bench.py        ServerBenchmark     (HostStats, no concurrency gate)  *)
(*   bench_async.py  AsyncHttpBenchmark  (Semaphore(10), one session)      *)
(* Both run on a single asyncio event loop: the code between two awaits    *)
(* runs atomically, so every action below is one such stretch of code.     *)
(***************************************************************************)
EXTENDS Integers, Sequences, FiniteSets, TLC

VARIABLES
    prog,         \* which entry point runs: "bench" or "bench_async"
    argv,         \* parsed command line: hosts (split on ','), count, output
    net,          \* the outcomes the transport can deliver during this run
    pc,           \* position of main(): "start", "running", "exit"
    exit_code,    \* Optional int: <<>> while the process runs
    stdout,       \* sequence of printed items
    stderr,       \* sequence of tracebacks of uncaught exceptions
    valid_hosts,  \* valid_hosts / valid_urls of main()
    ready,        \* the event loop's FIFO of tasks that have not run yet
    htask,        \* per target: the test_host / benchmark_host task
    ptask,        \* per probe <<i, j>>: the fetch_url / make_request task
    sem,          \* AsyncHttpBenchmark.semaphore: free permits
    waiters,      \* AsyncHttpBenchmark.semaphore: FIFO of blocked acquirers
    sessions,     \* every aiohttp.ClientSession created: "open" / "closed"
    stats,        \* ServerBenchmark.stats, an insertion-ordered dict
    file,         \* Optional: what was written to the --output path
    write_status, \* outcome of open(output_file, 'w'): "none", "ok", "failed"
    hs,           \* a HostStats that results are folded into one by one
    folded,       \* the bench.py RequestResults folded into hs, in order
    probed        \* the bench_async.py RequestResults of the same outcomes

vars == <<prog, argv, net, pc, exit_code, stdout, stderr, valid_hosts, ready,
          htask, ptask, sem, waiters, sessions, stats, file, write_status,
          hs, folded, probed>>

runVars == <<prog, argv, net, pc, exit_code, stdout, stderr, valid_hosts,
             ready, htask, ptask, sem, waiters, sessions, stats, file,
             write_status>>

foldVars == <<hs, folded, probed>>

(***************************************************************************)
(* Bounds of the model.                                                    *)
(***************************************************************************)
MaxHosts == 2        \* candidates on the command line (Spec)
MaxCount == 2        \* largest --count (Spec)
MaxProbes == 4       \* candidates * count (Spec)
LoadHosts == 2       \* targets of a loaded run (SpecLoad)
LoadCount == 6       \* largest --count of a loaded run (SpecLoad)
LoadProbes == 12     \* targets * count of a loaded run (SpecLoad)
MaxFold == 3         \* results folded into one HostStats (SpecFold)
MantissaBits == 3    \* significant bits of the modelled binary float

(***************************************************************************)
(* Python values.  Optional[T] is a sequence: <<>> is None, <<v>> is v.    *)
(***************************************************************************)
None == <<>>
Some(v) == <<v>>
IsNone(o) == o = <<>>

\* truth value of an Optional[int]: None and 0 are falsy
TruthyInt(o) == o # <<>> /\ o[1] # 0
\* truth value of an Optional[str]: None and "" are falsy
TruthyStr(o) == o # <<>> /\ o[1] # ""

(***************************************************************************)
(* Python floats.  A duration is a binary float; it is modelled in units   *)
(* of one quantum as a natural number with MantissaBits significant bits,  *)
(* and every arithmetic result is rounded to nearest, ties to even, as     *)
(* IEEE 754 does.  Representable: n < 2^MantissaBits, and m * 2^e with     *)
(* m < 2^MantissaBits.                                                     *)
(***************************************************************************)
RECURSIVE FExponent(_, _, _)
FExponent(num, den, e) ==
    IF num < (2 ^ MantissaBits) * den * (2 ^ e) THEN e
    ELSE FExponent(num, den, e + 1)

\* the float nearest to the rational num / den
FRound(num, den) ==
    LET e == FExponent(num, den, 0)
        d == den * (2 ^ e)
        f == num \div d
        r == num % d
        up == (2 * r > d) \/ (2 * r = d /\ f % 2 = 1)
    IN  (IF up THEN f + 1 ELSE f) * (2 ^ e)

\* a + b and a / n as floats; each operand is evaluated once
FAdd(a, b) == CHOOSE r \in {FRound(x, 1) : x \in {a + b}} : TRUE
FDiv(a, n) == CHOOSE r \in {FRound(x, n) : x \in {a}} : TRUE

\* sum(times): starts at 0 and adds left to right
RECURSIVE FSumFrom(_, _, _)
FSumFrom(acc, s, i) ==
    IF i > Len(s) THEN acc ELSE FSumFrom(FAdd(acc, s[i]), s, i + 1)

FSum(s) == FSumFrom(0, s, 1)

SeqMin(s) == CHOOSE x \in {s[i] : i \in 1..Len(s)} :
                 \A i \in 1..Len(s) : x <= s[i]
SeqMax(s) == CHOOSE x \in {s[i] : i \in 1..Len(s)} :
                 \A i \in 1..Len(s) : x >= s[i]

(***************************************************************************)
(* What the transport can do to one GET: the outcome of session.get(),     *)
(* with the wall-clock time that passed (time.time() - start_time).        *)
(***************************************************************************)
StatusCodes == {199, 200, 399, 400, 599, 600}
Elapsed == {0, 6, 7}
Messages == {"", "boom"}

Response(status, elapsed) ==
    [kind |-> "response", status |-> status, msg |-> "", elapsed |-> elapsed]
Fault(kind, msg, elapsed) ==
    [kind |-> kind, status |-> 0, msg |-> msg, elapsed |-> elapsed]

\* kinds: response, asyncio.TimeoutError, aiohttp.ClientError, other Exception
Outcomes ==
    {Response(s, t) : s \in StatusCodes, t \in Elapsed}
    \cup {Fault("timeout", "", t) : t \in Elapsed}
    \cup {Fault(k, m, t) : k \in {"client_error", "exception"},
                           m \in Messages, t \in Elapsed}

\* what a coroutine hands to its awaiter: a value or an exception
Return(v) == [raised |-> FALSE, value |-> v]
Raise(ev) == [raised |-> TRUE, value |-> ev.kind]

(***************************************************************************)
(* URLs are sequences of characters, so that the two url_pattern regular   *)
(* expressions are matched character by character.                         *)
(***************************************************************************)
Lower == {"a", "b", "c", "d", "e", "f", "g", "h", "i", "j", "k", "l", "m",
          "n", "o", "p", "q", "r", "s", "t", "u", "v", "w", "x", "y", "z"}
Upper == {"A", "B", "C", "D", "E", "F", "G", "H", "I", "J", "K", "L", "M",
          "N", "O", "P", "Q", "R", "S", "T", "U", "V", "W", "X", "Y", "Z"}
Digits == {"0", "1", "2", "3", "4", "5", "6", "7", "8", "9"}
AlNum == Lower \cup Upper \cup Digits
Whitespace == {" ", "\t", "\n", "\r"}

\* \w
WordChars == AlNum \cup {"_"}
\* [-a-zA-Z0-9@:%._\+~#=]
HostChars == AlNum \cup {"-", "@", ":", "%", ".", "_", "+", "~", "#", "="}
\* [a-zA-Z0-9()]
TldChars == AlNum \cup {"(", ")"}
\* [-a-zA-Z0-9()@:%_\+.~#?&//=]
TailChars == AlNum \cup {"-", "(", ")", "@", ":", "%", "_", "+", ".", "~", "#",
                         "?", "&", "/", "="}
\* [\da-fA-F]
HexChars == Digits \cup {"a", "b", "c", "d", "e", "f", "A", "B", "C", "D", "E", "F"}

HostRepeat == 256    \* {1,256}
TldRepeat == 6       \* {1,6}

\* s[a..b] lies within s and all of it is in class
AllIn(s, a, b, class) ==
    /\ a >= 1 /\ b <= Len(s)
    /\ \A k \in a..b : s[k] \in class

\* s[a+1..a+Len(lit)] = lit
LiteralAt(s, a, lit) ==
    /\ a + Len(lit) <= Len(s)
    /\ \A k \in 1..Len(lit) : s[a + k] = lit[k]

\* positions where "https?://" can end when matched at the start of s
SchemeEnds(s) ==
    {n \in {7, 8} : \/ n = 7 /\ LiteralAt(s, 0, <<"h", "t", "t", "p", ":", "/", "/">>)
                    \/ n = 8 /\ LiteralAt(s, 0, <<"h", "t", "t", "p", "s", ":", "/", "/">>)}

\* \b between s[k] and s[k+1]
WordBoundary(s, k) ==
    LET before == k >= 1 /\ k <= Len(s) /\ s[k] \in WordChars
        after == k + 1 <= Len(s) /\ s[k + 1] \in WordChars
    IN  before # after

\* ServerBenchmark.url_pattern.match(s): anchored at both ends
MatchServerPattern(s) ==
    \E p0 \in SchemeEnds(s) :
      \E p1 \in {p0} \cup (IF LiteralAt(s, p0, <<"w", "w", "w", ".">>)
                            THEN {p0 + 4} ELSE {}) :
        \E h \in 1..HostRepeat :
          /\ p1 + h + 1 <= Len(s)
          /\ AllIn(s, p1 + 1, p1 + h, HostChars)
          /\ s[p1 + h + 1] = "."
          /\ \E t \in 1..TldRepeat :
                /\ AllIn(s, p1 + h + 2, p1 + h + 1 + t, TldChars)
                /\ WordBoundary(s, p1 + h + 1 + t)
                /\ AllIn(s, p1 + h + 2 + t, Len(s), TailChars)

\* AsyncHttpBenchmark.url_pattern.match(s): anchored at the start only, so
\* one repetition of (?:[-\w.]|(?:%[\da-fA-F]{2})) after the scheme is a match
MatchAsyncPattern(s) ==
    \E p0 \in SchemeEnds(s) :
        \/ AllIn(s, p0 + 1, p0 + 1, WordChars \cup {"-", "."})
        \/ /\ LiteralAt(s, p0, <<"%">>)
           /\ AllIn(s, p0 + 2, p0 + 3, HexChars)

\* str.strip()
RECURSIVE LStrip(_)
LStrip(s) == IF s # <<>> /\ Head(s) \in Whitespace THEN LStrip(Tail(s)) ELSE s
RECURSIVE RStrip(_)
RStrip(s) == IF s # <<>> /\ s[Len(s)] \in Whitespace
             THEN RStrip(SubSeq(s, 1, Len(s) - 1)) ELSE s
Strip(s) == RStrip(LStrip(s))

\* the candidates a command line is built from
UrlA == <<"h", "t", "t", "p", ":", "/", "/", "a", ".", "i", "o">>
UrlB == <<"h", "t", "t", "p", "s", ":", "/", "/", "b", ".", "i", "o", "/", "x">>
UrlOpen == <<"h", "t", "t", "p", ":", "/", "/", "a", ".", "i", "o", " ", "b">>
NotUrl == <<"n", "o", "t", "-", "a", "-", "u", "r", "l">>
Blank == <<" ">>
Candidates == {UrlA, UrlB, UrlOpen, NotUrl, Blank}

\* f"Unexpected error: {str(e)}"
UnexpectedError(msg) ==
    CASE msg = "" -> "Unexpected error: "
      [] msg = "boom" -> "Unexpected error: boom"

(***************************************************************************)
(* bench.py                                                                *)
(***************************************************************************)
\* ServerBenchmark.validate_url
validate_url(url) == MatchServerPattern(url)

\* ServerBenchmark.fetch_url without the last handler, "except Exception"
fetch_url_no_catch_all(url, ev) ==
    CASE ev.kind = "response" ->
            Return([host |-> url, success |-> (200 <= ev.status /\ ev.status < 400),
                    status_code |-> Some(ev.status), duration |-> ev.elapsed,
                    error |-> None])
      [] ev.kind = "client_error" ->
            Return([host |-> url, success |-> FALSE, status_code |-> None,
                    duration |-> ev.elapsed, error |-> Some(ev.msg)])
      [] ev.kind = "timeout" ->
            Return([host |-> url, success |-> FALSE, status_code |-> None,
                    duration |-> ev.elapsed, error |-> Some("Timeout")])
      [] OTHER -> Raise(ev)

\* ServerBenchmark.fetch_url with "200 <= response.status <= 400"
fetch_url_le_400(url, ev) ==
    CASE ev.kind = "response" ->
            Return([host |-> url, success |-> (200 <= ev.status /\ ev.status <= 400),
                    status_code |-> Some(ev.status), duration |-> ev.elapsed,
                    error |-> None])
      [] ev.kind = "client_error" ->
            Return([host |-> url, success |-> FALSE, status_code |-> None,
                    duration |-> ev.elapsed, error |-> Some(ev.msg)])
      [] ev.kind = "timeout" ->
            Return([host |-> url, success |-> FALSE, status_code |-> None,
                    duration |-> ev.elapsed, error |-> Some("Timeout")])
      [] ev.kind = "exception" ->
            Return([host |-> url, success |-> FALSE, status_code |-> None,
                    duration |-> ev.elapsed,
                    error |-> Some(UnexpectedError(ev.msg))])
      [] OTHER -> Raise(ev)

\* ServerBenchmark.fetch_url: the try block and its handlers, in order
fetch_url(url, ev) ==
    CASE ev.kind = "response" ->
            Return([host |-> url, success |-> (200 <= ev.status /\ ev.status < 400),
                    status_code |-> Some(ev.status), duration |-> ev.elapsed,
                    error |-> None])
      [] ev.kind = "client_error" ->
            Return([host |-> url, success |-> FALSE, status_code |-> None,
                    duration |-> ev.elapsed, error |-> Some(ev.msg)])
      [] ev.kind = "timeout" ->
            Return([host |-> url, success |-> FALSE, status_code |-> None,
                    duration |-> ev.elapsed, error |-> Some("Timeout")])
      [] ev.kind = "exception" ->
            Return([host |-> url, success |-> FALSE, status_code |-> None,
                    duration |-> ev.elapsed,
                    error |-> Some(UnexpectedError(ev.msg))])
      [] OTHER -> Raise(ev)

\* HostStats(host=host)
NewHostStats(host) ==
    [host |-> host, success_count |-> 0, failed_count |-> 0, error_count |-> 0,
     times |-> <<>>]

\* HostStats.add_result with "if" in place of "elif" on the status test
add_result_if(s, result) ==
    LET a == IF TruthyStr(result.error)
             THEN [s EXCEPT !.error_count = @ + 1] ELSE s
        b == IF TruthyInt(result.status_code)
                /\ 400 <= result.status_code[1] /\ result.status_code[1] < 600
             THEN [a EXCEPT !.failed_count = @ + 1]
             ELSE [a EXCEPT !.success_count = @ + 1]
    IN  IF result.duration > 0
        THEN [b EXCEPT !.times = Append(@, result.duration)] ELSE b

\* HostStats.add_result recording a latency for answered requests only
add_result_answered_only(s, result) ==
    LET b == IF TruthyStr(result.error)
             THEN [s EXCEPT !.error_count = @ + 1]
             ELSE IF TruthyInt(result.status_code)
                     /\ 400 <= result.status_code[1] /\ result.status_code[1] < 600
             THEN [s EXCEPT !.failed_count = @ + 1]
             ELSE [s EXCEPT !.success_count = @ + 1]
    IN  IF result.duration > 0 /\ result.error = None
        THEN [b EXCEPT !.times = Append(@, result.duration)] ELSE b

\* HostStats.add_result with "duration >= 0"
add_result_ge(s, result) ==
    LET b == IF TruthyStr(result.error)
             THEN [s EXCEPT !.error_count = @ + 1]
             ELSE IF TruthyInt(result.status_code)
                     /\ 400 <= result.status_code[1] /\ result.status_code[1] < 600
             THEN [s EXCEPT !.failed_count = @ + 1]
             ELSE [s EXCEPT !.success_count = @ + 1]
    IN  IF result.duration >= 0
        THEN [b EXCEPT !.times = Append(@, result.duration)] ELSE b

\* HostStats.add_result
add_result(s, result) ==
    LET b == IF TruthyStr(result.error)
             THEN [s EXCEPT !.error_count = @ + 1]
             ELSE IF TruthyInt(result.status_code)
                     /\ 400 <= result.status_code[1] /\ result.status_code[1] < 600
             THEN [s EXCEPT !.failed_count = @ + 1]
             ELSE [s EXCEPT !.success_count = @ + 1]
    IN  IF result.duration > 0
        THEN [b EXCEPT !.times = Append(@, result.duration)] ELSE b

\* HostStats.min_time returning the first sample
min_time_first(s) == IF s.times # <<>> THEN s.times[1] ELSE 0

\* HostStats.min_time, max_time, avg_time
min_time(s) == IF s.times # <<>> THEN SeqMin(s.times) ELSE 0
max_time(s) == IF s.times # <<>> THEN SeqMax(s.times) ELSE 0
avg_time(s) == IF s.times # <<>> THEN FDiv(FSum(s.times), Len(s.times)) ELSE 0

\* "for result in results: self.stats[host].add_result(result)"
RECURSIVE FoldFrom(_, _, _)
FoldFrom(s, results, i) ==
    IF i > Len(results) THEN s
    ELSE FoldFrom(add_result(s, results[i]), results, i + 1)

Fold(s, results) == FoldFrom(s, results, 1)

(***************************************************************************)
(* bench_async.py                                                          *)
(***************************************************************************)
\* AsyncHttpBenchmark.make_request: the try block and its two handlers
make_request(url, ev) ==
    CASE ev.kind = "response" ->
            Return([url |-> url, success |-> (200 <= ev.status /\ ev.status < 400),
                    status |-> Some(ev.status), duration |-> ev.elapsed,
                    error |-> None])
      [] ev.kind = "timeout" ->
            Return([url |-> url, success |-> FALSE, status |-> None,
                    duration |-> ev.elapsed, error |-> Some("Timeout")])
      [] ev.kind \in {"client_error", "exception"} ->
            Return([url |-> url, success |-> FALSE, status |-> None,
                    duration |-> ev.elapsed, error |-> Some(ev.msg)])
      [] OTHER -> Raise(ev)


\* AsyncHttpBenchmark.print_results: the block of one url (lines 77 to 98)
ResultBlock(url, results) ==
    LET success == SelectSeq(results, LAMBDA r : r.success)
        failed == SelectSeq(results, LAMBDA r : TruthyInt(r.status)
                               /\ 400 <= r.status[1] /\ r.status[1] < 600)
        errors == SelectSeq(results, LAMBDA r : TruthyStr(r.error))
        positive == SelectSeq(results, LAMBDA r : r.duration > 0)
        times == [k \in 1..Len(positive) |-> positive[k].duration]
    IN  [host |-> url, success |-> Len(success), failed |-> Len(failed),
         errors |-> Len(errors), times |-> times,
         min |-> IF times # <<>> THEN SeqMin(times) ELSE 0,
         max |-> IF times # <<>> THEN SeqMax(times) ELSE 0,
         avg |-> IF times # <<>> THEN FDiv(FSum(times), Len(times)) ELSE 0,
         first_error |-> IF errors # <<>> THEN errors[1].error ELSE None]

(***************************************************************************)
(* Standard output.  One entry per print(); a report is kept as the        *)
(* sequence of its host blocks (the values the text is formatted from).    *)
(***************************************************************************)
Line(kind, url, report) == [kind |-> kind, url |-> url, report |-> report]
Info == Line("info", <<>>, <<>>)
ErrorLine == Line("error", <<>>, <<>>)
Warning(url) == Line("warning", url, <<>>)
Saved == Line("saved", <<>>, <<>>)
WriteError == Line("write_error", <<>>, <<>>)
ReportLine(report) == Line("report", <<>>, report)

\* [h.strip() for h in hosts]
StripAll(hosts) == [k \in 1..Len(hosts) |-> Strip(hosts[k])]

\* the validation loop of ServerBenchmark.main() when it appends every host
valid_hosts_keep_all(hosts) == hosts

\* the validation loop of ServerBenchmark.main(): valid_hosts
ServerValidHosts(hosts) == SelectSeq(hosts, validate_url)

\* the same loop: its warnings, in order
ServerWarnings(hosts) ==
    LET bad == SelectSeq(hosts, LAMBDA h : ~validate_url(h))
    IN  [k \in 1..Len(bad) |-> Warning(bad[k])]

\* the validation loop of bench_async.main(): valid_urls
AsyncValidUrls(urls) == SelectSeq(urls, MatchAsyncPattern)

\* the same loop: its warnings, in order
AsyncWarnings(urls) ==
    LET bad == SelectSeq(urls, LAMBDA u : ~MatchAsyncPattern(u))
    IN  [k \in 1..Len(bad) |-> Warning(bad[k])]

\* ServerBenchmark.print_stats: the blocks of output_text
StatsReport(st) ==
    [k \in 1..Len(st) |->
        [host |-> st[k].host, success |-> st[k].success_count,
         failed |-> st[k].failed_count, errors |-> st[k].error_count,
         times |-> st[k].times,
         min |-> min_time(st[k]), max |-> max_time(st[k]),
         avg |-> avg_time(st[k]), first_error |-> None]]

\* ServerBenchmark.print_stats; writable: does open(output_file, 'w') succeed
print_stats(st, output_file, writable) ==
    LET text == StatsReport(st)
    IN  IF output_file # None
        THEN IF writable
             THEN [raised |-> FALSE, file |-> Some(text), out |-> <<Saved>>]
             ELSE [raised |-> FALSE, file |-> None,
                   out |-> <<WriteError, ReportLine(text)>>]
        ELSE [raised |-> FALSE, file |-> None, out |-> <<ReportLine(text)>>]

\* AsyncHttpBenchmark.print_results given the batches in another order than
\* urls (as asyncio.as_completed would deliver them)
print_results_misaligned(urls, all_results, output_file, writable) ==
    LET text == [k \in 1..Len(urls) |->
                    ResultBlock(urls[k], all_results[Len(urls) + 1 - k])]
    IN  IF output_file # None
        THEN IF writable
             THEN [raised |-> FALSE, file |-> Some(text), out |-> <<Saved>>]
             ELSE [raised |-> TRUE, file |-> None, out |-> <<>>]
        ELSE [raised |-> FALSE, file |-> None, out |-> <<ReportLine(text)>>]

\* AsyncHttpBenchmark.print_results: open() is not guarded
print_results(urls, all_results, output_file, writable) ==
    LET text == [k \in 1..Len(urls) |-> ResultBlock(urls[k], all_results[k])]
    IN  IF output_file # None
        THEN IF writable
             THEN [raised |-> FALSE, file |-> Some(text), out |-> <<Saved>>]
             ELSE [raised |-> TRUE, file |-> None, out |-> <<>>]
        ELSE [raised |-> FALSE, file |-> None, out |-> <<ReportLine(text)>>]

(***************************************************************************)
(* Tasks of the event loop.                                                *)
(***************************************************************************)
SemaphoreSize == 10

HostTask(i) == [kind |-> "host", i |-> i, j |-> 0]
ProbeTask(i, j) == [kind |-> "probe", i |-> i, j |-> j]

NoTasks == [p \in {} |-> 0]
NewProbe == [pc |-> "new", result |-> None]

\* tasks = [... for _ in range(count)]; asyncio.gather(*tasks)
ProbesOf(i, count) == {<<i, j>> : j \in 1..count}
WithProbes(pt, i, count) ==
    [p \in DOMAIN pt \cup ProbesOf(i, count) |->
        IF p \in DOMAIN pt THEN pt[p] ELSE NewProbe]
ProbeQueue(i, count) == [j \in 1..count |-> ProbeTask(i, j)]

\* the results list that gather returns for target i, in submission order
ResultsOf(pt, i, count) == [j \in 1..count |-> pt[<<i, j>>].result[1]]
BatchDone(pt, i, count) ==
    \A j \in 1..count : <<i, j>> \in DOMAIN pt /\ pt[<<i, j>>].pc = "done"

InFlight == {p \in DOMAIN ptask : ptask[p].pc = "inflight"}

\* index of host in the stats dict, 0 when absent
StatsIndex(st, host) ==
    IF \E k \in 1..Len(st) : st[k].host = host
    THEN CHOOSE k \in 1..Len(st) : st[k].host = host ELSE 0

Exit(code, lines) ==
    /\ pc' = "exit"
    /\ exit_code' = Some(code)
    /\ stdout' = stdout \o lines

\* an exception nobody catches ends asyncio.run(): traceback, status 1
Crash(where) ==
    /\ pc' = "exit"
    /\ exit_code' = Some(1)
    /\ stderr' = Append(stderr, where)


(***************************************************************************)
(* bench.py: ServerBenchmark.main, run_tests, test_host                    *)
(***************************************************************************)
\* main() up to "await self.run_tests(...)": parse_args, the host list, the
\* validation loop, and run_tests creating one test_host task per valid host
ServerMain ==
    /\ prog = "bench" /\ pc = "start"
    /\ LET hosts == SelectSeq(StripAll(argv.hosts), LAMBDA h : h # <<>>)
           valid == ServerValidHosts(hosts)
       IN  IF argv.count <= 0
           THEN /\ Exit(1, <<ErrorLine>>)
                /\ UNCHANGED <<valid_hosts, htask, ready>>
           ELSE IF hosts = <<>>
           THEN /\ Exit(1, <<ErrorLine>>)
                /\ UNCHANGED <<valid_hosts, htask, ready>>
           ELSE IF valid = <<>>
           THEN /\ Exit(1, ServerWarnings(hosts) \o <<ErrorLine>>)
                /\ UNCHANGED <<valid_hosts, htask, ready>>
           ELSE /\ stdout' = stdout \o ServerWarnings(hosts) \o <<Info, Info, Info>>
                /\ valid_hosts' = valid
                /\ htask' = [i \in 1..Len(valid) |-> [pc |-> "new", session |-> 0]]
                /\ ready' = [i \in 1..Len(valid) |-> HostTask(i)]
                /\ pc' = "running"
                /\ UNCHANGED exit_code
    /\ UNCHANGED <<prog, argv, net, stderr, ptask, sem, waiters, sessions, stats,
                   file, write_status>>
    /\ UNCHANGED foldVars

\* test_host() up to "await asyncio.gather(*tasks)"
TestHostStart(i) ==
    /\ prog = "bench" /\ pc = "running"
    /\ ready # <<>> /\ Head(ready) = HostTask(i)
    /\ LET host == valid_hosts[i]
       IN  IF ~validate_url(host)
           THEN /\ stdout' = Append(stdout, Warning(host))
                /\ htask' = [htask EXCEPT ![i].pc = "done"]
                /\ ready' = Tail(ready)
                /\ UNCHANGED <<stats, sessions, ptask>>
           ELSE /\ stats' = IF StatsIndex(stats, host) = 0
                            THEN Append(stats, NewHostStats(host)) ELSE stats
                /\ sessions' = Append(sessions, "open")
                /\ htask' = [htask EXCEPT ![i] = [pc |-> "gather",
                                                  session |-> Len(sessions) + 1]]
                /\ ptask' = WithProbes(ptask, i, argv.count)
                /\ ready' = Tail(ready) \o ProbeQueue(i, argv.count)
                /\ UNCHANGED stdout
    /\ UNCHANGED <<prog, argv, net, pc, exit_code, stderr, valid_hosts, sem,
                   waiters, file, write_status>>
    /\ UNCHANGED foldVars

\* fetch_url() entering a Semaphore(10) before the GET, as make_request does
FetchStartGated(i, j) ==
    /\ prog = "bench" /\ pc = "running"
    /\ ready # <<>> /\ Head(ready) = ProbeTask(i, j)
    /\ IF sem > 0 /\ waiters = <<>>
       THEN /\ sem' = sem - 1
            /\ ptask' = [ptask EXCEPT ![<<i, j>>].pc = "inflight"]
            /\ UNCHANGED waiters
       ELSE /\ waiters' = Append(waiters, <<i, j>>)
            /\ ptask' = [ptask EXCEPT ![<<i, j>>].pc = "waiting"]
            /\ UNCHANGED sem
    /\ ready' = Tail(ready)
    /\ UNCHANGED <<prog, argv, net, pc, exit_code, stdout, stderr, valid_hosts,
                   htask, sessions, stats, file, write_status>>
    /\ UNCHANGED foldVars

\* fetch_url() up to "async with session.get(url, timeout=timeout)"
FetchStart(i, j) ==
    /\ prog = "bench" /\ pc = "running"
    /\ ready # <<>> /\ Head(ready) = ProbeTask(i, j)
    /\ ptask' = [ptask EXCEPT ![<<i, j>>].pc = "inflight"]
    /\ ready' = Tail(ready)
    /\ UNCHANGED <<prog, argv, net, pc, exit_code, stdout, stderr, valid_hosts,
                   htask, sem, waiters, sessions, stats, file, write_status>>
    /\ UNCHANGED foldVars

\* the GET of probe <<i, j>> ends with outcome ev: the rest of fetch_url()
FetchDone(i, j, ev) ==
    /\ prog = "bench" /\ pc = "running"
    /\ <<i, j>> \in DOMAIN ptask /\ ptask[<<i, j>>].pc = "inflight"
    /\ ev \in net
    /\ LET got == fetch_url(valid_hosts[i], ev)
       IN  IF got.raised
           THEN /\ Crash("probe")
                /\ UNCHANGED ptask
           ELSE /\ ptask' = [ptask EXCEPT ![<<i, j>>] =
                                 [pc |-> "done", result |-> Some(got.value)]]
                /\ UNCHANGED <<pc, exit_code, stderr>>
    /\ UNCHANGED <<prog, argv, net, stdout, valid_hosts, ready, htask, sem,
                   waiters, sessions, stats, file, write_status>>
    /\ UNCHANGED foldVars

\* test_host() waiting for the first completed probe only (asyncio.wait with
\* FIRST_COMPLETED in place of gather) and folding what has completed
TestHostFoldEarly(i) ==
    /\ prog = "bench" /\ pc = "running"
    /\ i \in DOMAIN htask /\ htask[i].pc = "gather"
    /\ \E j \in 1..argv.count :
          <<i, j>> \in DOMAIN ptask /\ ptask[<<i, j>>].pc = "done"
    /\ LET k == StatsIndex(stats, valid_hosts[i])
           done == SelectSeq([j \in 1..argv.count |-> ptask[<<i, j>>]],
                             LAMBDA t : t.pc = "done")
           results == [n \in 1..Len(done) |-> done[n].result[1]]
       IN  stats' = [stats EXCEPT ![k] = Fold(@, results)]
    /\ sessions' = [sessions EXCEPT ![htask[i].session] = "closed"]
    /\ htask' = [htask EXCEPT ![i].pc = "done"]
    /\ UNCHANGED <<prog, argv, net, pc, exit_code, stdout, stderr, valid_hosts,
                   ready, ptask, sem, waiters, file, write_status>>
    /\ UNCHANGED foldVars

\* test_host() after gather: the fold loop, then the session is closed
TestHostFold(i) ==
    /\ prog = "bench" /\ pc = "running"
    /\ i \in DOMAIN htask /\ htask[i].pc = "gather"
    /\ BatchDone(ptask, i, argv.count)
    /\ LET k == StatsIndex(stats, valid_hosts[i])
       IN  stats' = [stats EXCEPT ![k] = Fold(@, ResultsOf(ptask, i, argv.count))]
    /\ sessions' = [sessions EXCEPT ![htask[i].session] = "closed"]
    /\ htask' = [htask EXCEPT ![i].pc = "done"]
    /\ UNCHANGED <<prog, argv, net, pc, exit_code, stdout, stderr, valid_hosts,
                   ready, ptask, sem, waiters, file, write_status>>
    /\ UNCHANGED foldVars

\* main() after run_tests: print_stats(args.output), then the process ends
ServerFinish(writable) ==
    /\ prog = "bench" /\ pc = "running"
    /\ \A i \in DOMAIN htask : htask[i].pc = "done"
    /\ LET done == print_stats(stats, argv.output, writable)
       IN  /\ file' = done.file
           /\ write_status' = IF argv.output = None THEN "none"
                              ELSE IF writable THEN "ok" ELSE "failed"
           /\ IF done.raised
              THEN Crash("report") /\ UNCHANGED stdout
              ELSE Exit(0, done.out) /\ UNCHANGED stderr
    /\ UNCHANGED <<prog, argv, net, valid_hosts, ready, htask, ptask, sem,
                   waiters, sessions, stats>>
    /\ UNCHANGED foldVars


(***************************************************************************)
(* bench_async.py: main, run_benchmark, benchmark_host, make_request       *)
(***************************************************************************)
\* main() and run_benchmark() up to "await asyncio.gather(*all_tasks)":
\* the validation loop, the one ClientSession, one task per valid url.
\* args.count is not examined.
AsyncMain ==
    /\ prog = "bench_async" /\ pc = "start"
    /\ LET urls == StripAll(argv.hosts)
           valid == AsyncValidUrls(urls)
       IN  IF valid = <<>>
           THEN /\ Exit(1, AsyncWarnings(urls) \o <<ErrorLine>>)
                /\ UNCHANGED <<valid_hosts, htask, ready, sessions>>
           ELSE /\ stdout' = stdout \o AsyncWarnings(urls) \o <<Info, Info, Info>>
                /\ valid_hosts' = valid
                /\ sessions' = Append(sessions, "open")
                /\ htask' = [i \in 1..Len(valid) |->
                                [pc |-> "new", session |-> Len(sessions) + 1]]
                /\ ready' = [i \in 1..Len(valid) |-> HostTask(i)]
                /\ pc' = "running"
                /\ UNCHANGED exit_code
    /\ UNCHANGED <<prog, argv, net, stderr, ptask, sem, waiters, stats, file,
                   write_status>>
    /\ UNCHANGED foldVars

\* benchmark_host() up to "await asyncio.gather(*tasks)"
BenchmarkHost(i) ==
    /\ prog = "bench_async" /\ pc = "running"
    /\ ready # <<>> /\ Head(ready) = HostTask(i)
    /\ htask' = [htask EXCEPT ![i].pc = "gather"]
    /\ ptask' = WithProbes(ptask, i, argv.count)
    /\ ready' = Tail(ready) \o ProbeQueue(i, argv.count)
    /\ UNCHANGED <<prog, argv, net, pc, exit_code, stdout, stderr, valid_hosts,
                   sem, waiters, sessions, stats, file, write_status>>
    /\ UNCHANGED foldVars

\* make_request() entering "async with self.semaphore" without acquiring
MakeRequestStartNoGate(i, j) ==
    /\ prog = "bench_async" /\ pc = "running"
    /\ ready # <<>> /\ Head(ready) = ProbeTask(i, j)
    /\ ptask' = [ptask EXCEPT ![<<i, j>>].pc = "inflight"]
    /\ ready' = Tail(ready)
    /\ UNCHANGED <<prog, argv, net, pc, exit_code, stdout, stderr, valid_hosts,
                   htask, sem, waiters, sessions, stats, file, write_status>>
    /\ UNCHANGED foldVars

\* make_request() up to the first await: "async with self.semaphore" takes a
\* permit when one is free and nobody queues, else the task joins the queue;
\* with a permit it goes on to session.get()
MakeRequestStart(i, j) ==
    /\ prog = "bench_async" /\ pc = "running"
    /\ ready # <<>> /\ Head(ready) = ProbeTask(i, j)
    /\ IF sem > 0 /\ waiters = <<>>
       THEN /\ sem' = sem - 1
            /\ ptask' = [ptask EXCEPT ![<<i, j>>].pc = "inflight"]
            /\ UNCHANGED waiters
       ELSE /\ waiters' = Append(waiters, <<i, j>>)
            /\ ptask' = [ptask EXCEPT ![<<i, j>>].pc = "waiting"]
            /\ UNCHANGED sem
    /\ ready' = Tail(ready)
    /\ UNCHANGED <<prog, argv, net, pc, exit_code, stdout, stderr, valid_hosts,
                   htask, sessions, stats, file, write_status>>
    /\ UNCHANGED foldVars

\* make_request() with a release that frees the permit but wakes nobody
MakeRequestDoneNoWake(i, j, ev) ==
    /\ prog = "bench_async" /\ pc = "running"
    /\ <<i, j>> \in DOMAIN ptask /\ ptask[<<i, j>>].pc = "inflight"
    /\ ev \in net
    /\ LET got == make_request(valid_hosts[i], ev)
           mine == IF got.raised THEN ptask[<<i, j>>]
                   ELSE [pc |-> "done", result |-> Some(got.value)]
       IN  /\ sem' = sem + 1
           /\ ptask' = [ptask EXCEPT ![<<i, j>>] = mine]
           /\ UNCHANGED waiters
           /\ IF got.raised
              THEN Crash("probe")
              ELSE UNCHANGED <<pc, exit_code, stderr>>
    /\ UNCHANGED <<prog, argv, net, stdout, valid_hosts, ready, htask,
                   sessions, stats, file, write_status>>
    /\ UNCHANGED foldVars

\* make_request() releasing the permit after the try block instead of on
\* leaving "async with": the timeout handler returns without releasing
MakeRequestDoneLeak(i, j, ev) ==
    /\ prog = "bench_async" /\ pc = "running"
    /\ <<i, j>> \in DOMAIN ptask /\ ptask[<<i, j>>].pc = "inflight"
    /\ ev \in net
    /\ LET got == make_request(valid_hosts[i], ev)
           mine == IF got.raised THEN ptask[<<i, j>>]
                   ELSE [pc |-> "done", result |-> Some(got.value)]
       IN  /\ IF ev.kind = "timeout"
              THEN /\ ptask' = [ptask EXCEPT ![<<i, j>>] = mine]
                   /\ UNCHANGED <<sem, waiters>>
              ELSE IF waiters = <<>>
              THEN /\ sem' = sem + 1
                   /\ ptask' = [ptask EXCEPT ![<<i, j>>] = mine]
                   /\ UNCHANGED waiters
              ELSE /\ sem' = sem
                   /\ ptask' = [ptask EXCEPT ![<<i, j>>] = mine,
                                             ![Head(waiters)].pc = "inflight"]
                   /\ waiters' = Tail(waiters)
           /\ IF got.raised
              THEN Crash("probe")
              ELSE UNCHANGED <<pc, exit_code, stderr>>
    /\ UNCHANGED <<prog, argv, net, stdout, valid_hosts, ready, htask,
                   sessions, stats, file, write_status>>
    /\ UNCHANGED foldVars

\* the GET of probe <<i, j>> ends with outcome ev: the rest of make_request(),
\* leaving "async with self.semaphore" on the way out.  Semaphore.release()
\* hands the permit to the first queued task, which goes on to session.get();
\* with nobody queued the permit becomes free
MakeRequestDone(i, j, ev) ==
    /\ prog = "bench_async" /\ pc = "running"
    /\ <<i, j>> \in DOMAIN ptask /\ ptask[<<i, j>>].pc = "inflight"
    /\ ev \in net
    /\ LET got == make_request(valid_hosts[i], ev)
           mine == IF got.raised THEN ptask[<<i, j>>]
                   ELSE [pc |-> "done", result |-> Some(got.value)]
       IN  /\ IF waiters = <<>>
              THEN /\ sem' = sem + 1
                   /\ ptask' = [ptask EXCEPT ![<<i, j>>] = mine]
                   /\ UNCHANGED waiters
              ELSE /\ sem' = sem
                   /\ ptask' = [ptask EXCEPT ![<<i, j>>] = mine,
                                             ![Head(waiters)].pc = "inflight"]
                   /\ waiters' = Tail(waiters)
           /\ IF got.raised
              THEN Crash("probe")
              ELSE UNCHANGED <<pc, exit_code, stderr>>
    /\ UNCHANGED <<prog, argv, net, stdout, valid_hosts, ready, htask,
                   sessions, stats, file, write_status>>
    /\ UNCHANGED foldVars

\* benchmark_host() after gather: returns the list of results
BenchmarkHostDone(i) ==
    /\ prog = "bench_async" /\ pc = "running"
    /\ i \in DOMAIN htask /\ htask[i].pc = "gather"
    /\ BatchDone(ptask, i, argv.count)
    /\ htask' = [htask EXCEPT ![i].pc = "done"]
    /\ UNCHANGED <<prog, argv, net, pc, exit_code, stdout, stderr, valid_hosts,
                   ready, ptask, sem, waiters, sessions, stats, file, write_status>>
    /\ UNCHANGED foldVars

\* run_benchmark() after the outer gather: the session is closed, then
\* print_results(urls, all_results, total_time, output_file)
AsyncFinish(writable) ==
    /\ prog = "bench_async" /\ pc = "running"
    /\ \A i \in DOMAIN htask : htask[i].pc = "done"
    /\ sessions' = [k \in 1..Len(sessions) |-> "closed"]
    /\ LET all_results == [i \in 1..Len(valid_hosts) |->
                              ResultsOf(ptask, i, argv.count)]
           done == print_results(valid_hosts, all_results, argv.output, writable)
       IN  /\ file' = done.file
           /\ write_status' = IF argv.output = None THEN "none"
                              ELSE IF writable THEN "ok" ELSE "failed"
           /\ IF done.raised
              THEN Crash("report") /\ UNCHANGED stdout
              ELSE Exit(0, done.out) /\ UNCHANGED stderr
    /\ UNCHANGED <<prog, argv, net, valid_hosts, ready, htask, ptask, sem,
                   waiters, stats>>
    /\ UNCHANGED foldVars

(***************************************************************************)
(* Folding results into one HostStats, outside any run.                    *)
(***************************************************************************)
\* one outcome is turned into a RequestResult by each prober; the bench.py
\* result is folded into hs
FoldStep(ev) ==
    /\ pc = "idle"
    /\ Len(folded) < MaxFold
    /\ ev \in net
    /\ LET got == fetch_url(UrlA, ev)
           agot == make_request(UrlA, ev)
       IN  /\ ~got.raised /\ ~agot.raised
           /\ hs' = add_result(hs, got.value)
           /\ folded' = Append(folded, got.value)
           /\ probed' = Append(probed, agot.value)
    /\ UNCHANGED runVars

(***************************************************************************)
(* Specifications.                                                         *)
(***************************************************************************)
Programs == {"bench", "bench_async"}

\* the outcomes of the fake transport of a run
RunOutcomes ==
    {Response(200, 6), Response(400, 7), Fault("timeout", "", 7),
     Fault("client_error", "boom", 6), Fault("exception", "boom", 6)}

HostLists(n) == UNION {[1..k -> Candidates] : k \in 1..n}

\* the targets of a loaded run: UrlA, UrlB, UrlA, ...
LoadTargets(n) == [k \in 1..n |-> IF k % 2 = 1 THEN UrlA ELSE UrlB]

Quiet ==
    /\ exit_code = None /\ stdout = <<>> /\ stderr = <<>>
    /\ valid_hosts = <<>> /\ ready = <<>> /\ htask = <<>> /\ ptask = NoTasks
    /\ sem = SemaphoreSize /\ waiters = <<>> /\ sessions = <<>>
    /\ stats = <<>> /\ file = None /\ write_status = "none"

FreshFold ==
    /\ hs = NewHostStats(UrlA) /\ folded = <<>> /\ probed = <<>>

\* a command line: --hosts, --count, --output
Init ==
    /\ prog \in Programs
    /\ argv \in {a \in [hosts : HostLists(MaxHosts),
                        count : (0 - 1)..MaxCount,
                        output : {None, Some("out.txt")}] :
                    Len(a.hosts) * a.count <= MaxProbes}
    /\ net = RunOutcomes
    /\ pc = "start"
    /\ Quiet /\ FreshFold

\* a command line of valid targets whose probes outnumber the permits; the
\* transport times every request out
InitLoad ==
    /\ prog \in Programs
    /\ argv \in {a \in [hosts : {LoadTargets(k) : k \in 1..LoadHosts},
                        count : 1..LoadCount,
                        output : {None}] :
                    Len(a.hosts) * a.count <= LoadProbes}
    /\ net = {Fault("timeout", "", 7)}
    /\ pc = "start"
    /\ Quiet /\ FreshFold

\* no program runs: a fresh HostStats and every outcome
InitFold ==
    /\ prog = "bench"
    /\ argv = [hosts |-> <<UrlA>>, count |-> 1, output |-> None]
    /\ net = Outcomes
    /\ pc = "idle"
    /\ Quiet /\ FreshFold

Next ==
    \/ ServerMain
    \/ AsyncMain
    \/ \E i \in 1..Len(valid_hosts) : TestHostStart(i)
    \/ \E i \in 1..Len(valid_hosts) : BenchmarkHost(i)
    \/ \E p \in DOMAIN ptask : FetchStart(p[1], p[2])
    \/ \E p \in DOMAIN ptask : MakeRequestStart(p[1], p[2])
    \/ \E p \in DOMAIN ptask : \E ev \in net : FetchDone(p[1], p[2], ev)
    \/ \E p \in DOMAIN ptask : \E ev \in net : MakeRequestDone(p[1], p[2], ev)
    \/ \E i \in 1..Len(valid_hosts) : TestHostFold(i)
    \/ \E i \in 1..Len(valid_hosts) : BenchmarkHostDone(i)
    \/ \E writable \in BOOLEAN : ServerFinish(writable)
    \/ \E writable \in BOOLEAN : AsyncFinish(writable)

NextFold == \E ev \in net : FoldStep(ev)

Spec == Init /\ [][Next]_vars
SpecLoad == InitLoad /\ [][Next]_vars
SpecFold == InitFold /\ [][NextFold]_vars

\* any command line: a small one with every outcome, or a loaded one
InitAny == Init \/ InitLoad
SpecAny == InitAny /\ [][Next]_vars

\* every network call ends: with a response, a fault or the timeout
Transport ==
    \/ \E p \in DOMAIN ptask : \E ev \in net : FetchDone(p[1], p[2], ev)
    \/ \E p \in DOMAIN ptask : \E ev \in net : MakeRequestDone(p[1], p[2], ev)

\* the event loop runs every task that is ready to run
EventLoop ==
    \/ ServerMain
    \/ AsyncMain
    \/ \E i \in 1..Len(valid_hosts) : TestHostStart(i)
    \/ \E i \in 1..Len(valid_hosts) : BenchmarkHost(i)
    \/ \E p \in DOMAIN ptask : FetchStart(p[1], p[2])
    \/ \E p \in DOMAIN ptask : MakeRequestStart(p[1], p[2])
    \/ \E i \in 1..Len(valid_hosts) : TestHostFold(i)
    \/ \E i \in 1..Len(valid_hosts) : BenchmarkHostDone(i)
    \/ \E writable \in BOOLEAN : ServerFinish(writable)
    \/ \E writable \in BOOLEAN : AsyncFinish(writable)

Fairness == WF_vars(EventLoop) /\ WF_vars(Transport)

\* a loaded run under fair scheduling and a transport that always answers
SpecLive == InitLoad /\ [][Next]_vars /\ Fairness


(***************************************************************************)
(* Properties of the probers and of HostStats (SpecFold).                  *)
(***************************************************************************)
Range(s) == {s[k] : k \in 1..Len(s)}

InRange(o, lo, hi) == o # None /\ lo <= o[1] /\ o[1] < hi

ExactlyOne(a, b, c) ==
    \/ a /\ ~b /\ ~c
    \/ ~a /\ b /\ ~c
    \/ ~a /\ ~b /\ c

\* every result record either prober has returned so far
Returned ==
    {[success |-> r.success, status |-> r.status_code, error |-> r.error] :
        r \in Range(folded)}
    \cup {[success |-> r.success, status |-> r.status, error |-> r.error] :
        r \in Range(probed)}

\* C3 as stated: every result record satisfies exactly one of
\* (success and status in [200,400)), (not success and status in [400,600)),
\* (not success and error set).
C3_ExactlyOneOfThree ==
    \A r \in Returned :
        ExactlyOne(r.success /\ InRange(r.status, 200, 400),
                   ~r.success /\ InRange(r.status, 400, 600),
                   ~r.success /\ r.error # None)

\* C3 as amended: every result record satisfies exactly one of
\* (success and status in [200,400)), (not success and a status outside
\* [200,400)), (not success, no status and error not None).
C3_ExactlyOneOfThreeAmended ==
    \A r \in Returned :
        ExactlyOne(r.success /\ InRange(r.status, 200, 400),
                   ~r.success /\ r.status # None /\ ~InRange(r.status, 200, 400),
                   ~r.success /\ r.status = None /\ r.error # None)

\* a response with status 600, a response with status 199 and a fault have
\* been returned
C3_Witness ==
    /\ \E r \in Returned : r.status = Some(600)
    /\ \E r \in Returned : r.status = Some(199)
    /\ \E r \in Returned : r.error # None

SumOfCounts(s) == s.success_count + s.failed_count + s.error_count

\* exactly one of the three counters is one larger in t than in s
OneCounterUp(s, t) ==
    /\ SumOfCounts(t) = SumOfCounts(s) + 1
    /\ t.success_count \in {s.success_count, s.success_count + 1}
    /\ t.failed_count \in {s.failed_count, s.failed_count + 1}
    /\ t.error_count \in {s.error_count, s.error_count + 1}

\* C4: after any sequence of add_result calls on a fresh HostStats the three
\* counters sum to the number of results folded, and the next add_result,
\* whatever the result, increments exactly one counter by exactly one.
C4_CountsSumToFolded ==
    /\ SumOfCounts(hs) = Len(folded)
    /\ \A ev \in net :
          OneCounterUp(hs, add_result(hs, fetch_url(UrlA, ev).value))

\* MaxFold results are folded and every counter has moved
C4_Witness ==
    /\ Len(folded) = MaxFold
    /\ hs.success_count > 0 /\ hs.failed_count > 0 /\ hs.error_count > 0

Orders(n) ==
    {f \in [1..n -> 1..n] : \A a, b \in 1..n : f[a] = f[b] => a = b}
Reorder(s, f) == [k \in 1..Len(s) |-> s[f[k]]]
Refold(results) == Fold(NewHostStats(UrlA), results)

SameCounts(s, t) ==
    /\ s.success_count = t.success_count
    /\ s.failed_count = t.failed_count
    /\ s.error_count = t.error_count

\* t.times is a reordering of s.times
SameSamples(s, t) ==
    /\ Len(s.times) = Len(t.times)
    /\ \E f \in Orders(Len(s.times)) : t.times = Reorder(s.times, f)

PositiveDurations(results) ==
    LET positive == SelectSeq(results, LAMBDA r : r.duration > 0)
    IN  [k \in 1..Len(positive) |-> positive[k].duration]

\* the sum of the samples in exact arithmetic
RECURSIVE ExactSum(_)
ExactSum(s) == IF s = <<>> THEN 0 ELSE Head(s) + ExactSum(Tail(s))

\* C10 as stated: times holds the durations > 0 in fold order; min, max and
\* avg are 0 when times is empty, and otherwise min <= avg <= max with min
\* and max elements of times.
C10_LatencyStats ==
    /\ hs.times = PositiveDurations(folded)
    /\ hs.times = <<>> =>
          min_time(hs) = 0 /\ max_time(hs) = 0 /\ avg_time(hs) = 0
    /\ hs.times # <<>> =>
          /\ min_time(hs) \in Range(hs.times)
          /\ max_time(hs) \in Range(hs.times)
          /\ min_time(hs) <= avg_time(hs)
          /\ avg_time(hs) <= max_time(hs)

\* C10 as amended: times holds the durations > 0 in fold order; min, max and
\* avg are 0 when times is empty; otherwise min and max are the least and the
\* greatest element of times, and min <= avg <= max whenever the
\* floating-point sum of times is exact.
C10_LatencyStatsAmended ==
    /\ hs.times = PositiveDurations(folded)
    /\ hs.times = <<>> =>
          min_time(hs) = 0 /\ max_time(hs) = 0 /\ avg_time(hs) = 0
    /\ hs.times # <<>> =>
          /\ min_time(hs) \in Range(hs.times)
          /\ max_time(hs) \in Range(hs.times)
          /\ \A x \in Range(hs.times) : min_time(hs) <= x /\ x <= max_time(hs)
          /\ FSum(hs.times) = ExactSum(hs.times) =>
                min_time(hs) <= avg_time(hs) /\ avg_time(hs) <= max_time(hs)

\* a result of duration 0 and two of a duration > 0 were folded, and the
\* sum of the two samples is exact
C10_Witness ==
    /\ Len(folded) = 3 /\ Len(hs.times) = 2
    /\ FSum(hs.times) = ExactSum(hs.times)
    /\ avg_time(hs) = min_time(hs)

(***************************************************************************)
(* Properties of a run (Spec, SpecLoad).                                   *)
(***************************************************************************)
Count(S) == Cardinality(S)

\* C1: in a run of bench_async.py at most 10 make_request tasks are between
\* acquiring and releasing the semaphore, whatever the number of hosts and
\* the count; the tasks that are neither there nor finished queue for a
\* permit, and they queue only while all 10 permits are taken.
C1_ConcurrencyCap ==
    prog = "bench_async" =>
        /\ Count(InFlight) <= SemaphoreSize
        /\ \A p \in DOMAIN ptask :
              ptask[p].pc = "waiting" <=> p \in Range(waiters)
        /\ waiters # <<>> => Count(InFlight) = SemaphoreSize

\* more probes than permits: 10 are in flight and the others queue
C1_Witness ==
    /\ prog = "bench_async"
    /\ Len(valid_hosts) * argv.count > SemaphoreSize
    /\ Count(InFlight) = SemaphoreSize
    /\ Len(waiters) = Len(valid_hosts) * argv.count - SemaphoreSize

\* the result records of the probes that have returned
Results == {ptask[p].result[1] : p \in {q \in DOMAIN ptask : ptask[q].pc = "done"}}

\* C2: whichever of the four outcomes a probe meets, fetch_url and
\* make_request return a result record: no probe raises into gather, no
\* traceback of a probe is ever printed, and a run that issued probes ends
\* with the report step, not with a probe's exception.
C2_ProbeNeverRaises ==
    /\ \A p \in InFlight : \A ev \in net :
          /\ prog = "bench" => ~fetch_url(valid_hosts[p[1]], ev).raised
          /\ prog = "bench_async" => ~make_request(valid_hosts[p[1]], ev).raised
    /\ \A p \in DOMAIN ptask : ptask[p].pc = "done" => ptask[p].result # None
    /\ "probe" \notin Range(stderr)
    /\ (pc = "exit" /\ DOMAIN ptask # {}) =>
          /\ \A p \in DOMAIN ptask : ptask[p].pc = "done"
          /\ write_status # "failed" => exit_code = Some(0)

\* a run of bench.py has ended with status 0 after its probes met a response,
\* a timeout, a ClientError and another exception
C2_Witness ==
    /\ prog = "bench" /\ pc = "exit" /\ exit_code = Some(0)
    /\ \E r \in Results : r.status_code # None
    /\ \E r \in Results : r.error = Some("Timeout")
    /\ \E r \in Results : r.error = Some("boom")
    /\ \E r \in Results : r.error = Some("Unexpected error: boom")


\* the report the run has emitted, to the --output file or to standard
\* output: its host blocks (<<>> while there is none)
Report ==
    LET printed == SelectSeq(stdout, LAMBDA l : l.kind = "report")
    IN  IF file # None THEN file[1]
        ELSE IF printed # <<>> THEN printed[1].report ELSE <<>>

\* the targets whose probes block k of the report accounts for
TargetsOf(k) ==
    IF prog = "bench"
    THEN {i \in 1..Len(valid_hosts) : valid_hosts[i] = Report[k].host}
    ELSE {k}

ProbesOfTargets(T) == {<<i, j>> : i \in T, j \in 1..argv.count}

AllTimedOut(T) ==
    \A p \in ProbesOfTargets(T) : ptask[p].result[1].error = Some("Timeout")

\* C5 as stated: when each of the count probes to a host timed out, the host
\* is reported with error_count = count (for every time it is listed), no
\* success, no failure, an empty latency sequence and avg = 0.
C5_AllTimeouts ==
    (pc = "exit" /\ argv.count >= 1) =>
        \A k \in 1..Len(Report) :
            AllTimedOut(TargetsOf(k)) =>
                /\ Report[k].errors = argv.count * Count(TargetsOf(k))
                /\ Report[k].success = 0
                /\ Report[k].failed = 0
                /\ Report[k].times = <<>>
                /\ Report[k].avg = 0

\* C5 as amended: when each of the count probes to a host timed out, the host
\* is reported with error_count = count (for every time it is listed), no
\* success and no failure; its latency sequence holds the duration of every
\* one of these probes that measured more than 0, and avg is 0 only when the
\* sequence is empty.
C5_AllTimeoutsAmended ==
    (pc = "exit" /\ argv.count >= 1) =>
        \A k \in 1..Len(Report) :
            AllTimedOut(TargetsOf(k)) =>
                LET slow == {p \in ProbesOfTargets(TargetsOf(k)) :
                                ptask[p].result[1].duration > 0}
                IN  /\ Report[k].errors = argv.count * Count(TargetsOf(k))
                    /\ Report[k].success = 0
                    /\ Report[k].failed = 0
                    /\ Len(Report[k].times) = Count(slow)
                    /\ Range(Report[k].times) =
                           {ptask[p].result[1].duration : p \in slow}
                    /\ (Report[k].avg = 0) <=> (Report[k].times = <<>>)

\* a run with count 2 has ended, and both probes of a reported host timed out
C5_Witness ==
    /\ pc = "exit" /\ argv.count = 2
    /\ \E k \in 1..Len(Report) :
          /\ AllTimedOut(TargetsOf(k))
          /\ Report[k].errors = 2
          /\ Len(Report[k].times) = 2

\* C6 as stated: with --count zero or negative either entry point ends with a
\* nonzero status, and no session is opened and no probe issued.
C6_NonPositiveCountIsFatal ==
    (argv.count <= 0 /\ pc # "start") =>
        /\ pc = "exit"
        /\ exit_code # None /\ exit_code # Some(0)
        /\ sessions = <<>>
        /\ DOMAIN ptask = {}

\* the candidate list main() validates, and the validator of the entry point
Cands ==
    IF prog = "bench"
    THEN SelectSeq(StripAll(argv.hosts), LAMBDA h : h # <<>>)
    ELSE StripAll(argv.hosts)
IsValidTarget(u) ==
    IF prog = "bench" THEN MatchServerPattern(u) ELSE MatchAsyncPattern(u)
ValidCands == SelectSeq(Cands, IsValidTarget)
InvalidCands == SelectSeq(Cands, LAMBDA u : ~IsValidTarget(u))

PrintedWarnings ==
    LET w == SelectSeq(stdout, LAMBDA l : l.kind = "warning")
    IN  [k \in 1..Len(w) |-> w[k].url]

\* C7: for a positive count, once main() has validated the candidates: the
\* warnings printed are the invalid candidates, one each; with a valid
\* candidate, only valid targets are probed, count probes are issued against
\* each target whose task has started, and a report that is emitted has host
\* blocks for the valid targets and no others; with no valid candidate the
\* process has exited nonzero with no session and no probe.
C7_InvalidSkipped ==
    (argv.count >= 1 /\ pc # "start") =>
        /\ PrintedWarnings = InvalidCands
        /\ ValidCands # <<>> =>
              /\ valid_hosts = ValidCands
              /\ \A p \in DOMAIN ptask :
                    p[1] \in 1..Len(ValidCands) /\ p[2] \in 1..argv.count
              /\ \A i \in 1..Len(valid_hosts) :
                    Count({p \in DOMAIN ptask : p[1] = i}) =
                        IF htask[i].pc = "new" THEN 0 ELSE argv.count
              /\ pc = "exit" => \A i \in 1..Len(valid_hosts) : htask[i].pc = "done"
              /\ Report # <<>> =>
                    /\ {Report[k].host : k \in 1..Len(Report)} = Range(ValidCands)
                    /\ Len(Report) = IF prog = "bench"
                                     THEN Count(Range(ValidCands))
                                     ELSE Len(ValidCands)
        /\ ValidCands = <<>> =>
              /\ pc = "exit" /\ exit_code = Some(1)
              /\ sessions = <<>> /\ DOMAIN ptask = {} /\ Report = <<>>

\* scenario A: a valid and an invalid candidate, count 2; the run has ended
\* with one warning, two probes and one host block
C7_Witness ==
    /\ pc = "exit" /\ exit_code = Some(0)
    /\ argv.hosts = <<UrlA, NotUrl>> /\ argv.count = 2
    /\ PrintedWarnings = <<NotUrl>>
    /\ Count(DOMAIN ptask) = 2
    /\ Len(Report) = 1 /\ Report[1].host = UrlA

\* C8 as stated: when writing the report to the --output path fails, the
\* report is printed to standard output with a warning and the process ends
\* with status 0, in both variants.
C8_WriteFailureFallsBack ==
    write_status = "failed" =>
        /\ exit_code = Some(0)
        /\ \E k \in 1..Len(stdout) : stdout[k].kind = "write_error"
        /\ \E k \in 1..Len(stdout) : stdout[k].kind = "report"

(***************************************************************************)
(* Further properties of HostStats and of the two reports (SpecFold).      *)
(***************************************************************************)
Indices(s) == 1..Len(s)

\* C11 as stated: after folding any sequence of probe results, success_count
\* is the number of results whose success flag is true, failed_count the
\* number of results with a response status outside [200,400), and
\* error_count the number of results with no response (status absent),
\* whatever the fault description, an empty one included.
C11_BucketsAgree ==
    /\ hs.success_count = Count({k \in Indices(folded) : folded[k].success})
    /\ hs.failed_count =
           Count({k \in Indices(folded) :
                     /\ folded[k].status_code # None
                     /\ ~InRange(folded[k].status_code, 200, 400)})
    /\ hs.error_count =
           Count({k \in Indices(folded) : folded[k].status_code = None})

\* the record bench_async.py builds from the same status, success flag,
\* duration and error values
SameValues(r) ==
    [url |-> r.host, success |-> r.success, status |-> r.status_code,
     duration |-> r.duration, error |-> r.error]

\* C18 as stated: for any sequence of probe results of one host, the counts
\* and the min / max / average latency of ServerBenchmark's HostStats equal
\* those AsyncHttpBenchmark.print_results computes from the same values.
C18_VariantsAggregateAlike ==
    LET block == ResultBlock(UrlA, [k \in Indices(folded) |-> SameValues(folded[k])])
    IN  /\ hs.success_count = block.success
        /\ hs.failed_count = block.failed
        /\ hs.error_count = block.errors
        /\ min_time(hs) = block.min
        /\ max_time(hs) = block.max
        /\ avg_time(hs) = block.avg

(***************************************************************************)
(* Further properties of a run (Spec, SpecLoad, SpecAny).                  *)
(***************************************************************************)
AllReturned == \A p \in DOMAIN ptask : ptask[p].pc = "done"

\* C12: in bench_async.py the permit is taken before the request starts and
\* given back on every exit path of make_request (response, timeout, other
\* exception): in every reachable state free permits + probes inside
\* "async with self.semaphore" = 10, a queued probe holds no permit, and once
\* all probes have returned all 10 permits are free.
C12_PermitsConserved ==
    prog = "bench_async" =>
        /\ sem \in 0..SemaphoreSize
        /\ sem + Count(InFlight) = SemaphoreSize
        /\ (ready = <<>> /\ AllReturned) => sem = SemaphoreSize
        /\ pc = "exit" => sem = SemaphoreSize

\* a run of bench_async.py has ended with all permits free after its probes
\* left make_request with a response, a timeout and another exception
C12_Witness ==
    /\ prog = "bench_async" /\ pc = "exit" /\ sem = SemaphoreSize
    /\ \E r \in Results : r.status # None
    /\ \E r \in Results : r.error = Some("Timeout")
    /\ \E r \in Results : r.error = Some("boom")

Waiting(i, j) == <<i, j>> \in DOMAIN ptask /\ ptask[<<i, j>>].pc = "waiting"
Admitted(i, j) ==
    <<i, j>> \in DOMAIN ptask /\ ptask[<<i, j>>].pc \in {"inflight", "done"}

NobodyWaits == \A p \in DOMAIN ptask : ptask[p].pc # "waiting"

\* the run is over: every one of the hosts * count probes has finished and
\* the report is out
Completed ==
    /\ pc = "exit" /\ exit_code = Some(0)
    /\ DOMAIN ptask = {<<i, j>> : i \in 1..Len(argv.hosts), j \in 1..argv.count}
    /\ AllReturned
    /\ Report # <<>>
    /\ \A i \in 1..Len(argv.hosts) :
          \E k \in 1..Len(Report) : Report[k].host = argv.hosts[i]

SessionOf(p) == htask[p[1]].session

AllBatchesReturned ==
    /\ \A i \in DOMAIN htask : htask[i].pc \in {"gather", "done"}
    /\ AllReturned

\* C14 as stated: a run acquires exactly one session, before the first probe
\* starts, and releases it only after every probe of every host has
\* completed: no second session is opened, and no probe is in flight on a
\* released session, for any number of hosts.
C14_SingleSession ==
    /\ Len(sessions) <= 1
    /\ DOMAIN ptask # {} => Len(sessions) = 1
    /\ \A p \in DOMAIN ptask :
          ptask[p].pc # "done" => sessions[SessionOf(p)] = "open"
    /\ \A k \in 1..Len(sessions) :
          sessions[k] = "closed" => AllBatchesReturned

\* how many times the host of stats entry k is listed among the targets
Listings(k) == Count({i \in 1..Len(valid_hosts) : valid_hosts[i] = stats[k].host})

\* C15 as stated: whatever the outcomes of a host's probes (failures, errors
\* and timeouts included), no sibling probe is cancelled or skipped: the
\* dispatcher hands exactly count results per host to the aggregation or
\* reporting step, and the process ends with status 0 (in a run that issues
\* probes: count >= 1 and a valid host).
C15_NoSiblingCancelled ==
    (pc = "exit" /\ htask # <<>> /\ argv.count >= 1) =>
        /\ DOMAIN ptask =
               {<<i, j>> : i \in 1..Len(valid_hosts), j \in 1..argv.count}
        /\ \A p \in DOMAIN ptask : ptask[p].pc = "done" /\ ptask[p].result # None
        /\ \A i \in 1..Len(valid_hosts) :
              Len(ResultsOf(ptask, i, argv.count)) = argv.count
        /\ prog = "bench" =>
              \A k \in 1..Len(stats) :
                  SumOfCounts(stats[k]) = argv.count * Listings(k)
        /\ exit_code = Some(0)

\* test_host task i runs its fold loop in this step
FoldOf(i) ==
    /\ prog = "bench"
    /\ i \in DOMAIN htask /\ htask[i].pc = "gather" /\ htask'[i].pc = "done"

SameHost(i, n) == valid_hosts[i] = valid_hosts[n]

\* C16 as stated: each HostStats entry is mutated by exactly one fold step per
\* run, which runs only after all count probes of its host have completed:
\* no HostStats is written by two test_host tasks and no add_result happens
\* while a probe of that host is in flight, also when a URL is listed twice.
C16_OneFoldPerHostStats ==
    /\ [][\A i \in 1..Len(valid_hosts) :
             FoldOf(i) =>
                 /\ BatchDone(ptask, i, argv.count)
                 /\ \A n \in 1..Len(valid_hosts) : SameHost(i, n) => n = i
                 /\ \A p \in DOMAIN ptask :
                       SameHost(i, p[1]) => ptask[p].pc = "done"]_vars
    /\ [](prog = "bench" /\ pc = "exit" /\ argv.count >= 1 =>
             \A k \in 1..Len(stats) : SumOfCounts(stats[k]) = argv.count)

\* C16 as amended: each HostStats entry is mutated only by fold steps, one
\* per test_host task of its host (one per listing of the URL); a fold step
\* runs once per task, only after all count probes of that task's own batch
\* have completed, and folds exactly that batch into the one entry of its host.
C16_OneFoldPerListing ==
    /\ [][\A i \in 1..Len(valid_hosts) :
             FoldOf(i) =>
                 /\ BatchDone(ptask, i, argv.count)
                 /\ LET k == StatsIndex(stats, valid_hosts[i])
                    IN  /\ k \in 1..Len(stats)
                        /\ stats' = [stats EXCEPT ![k] =
                               Fold(@, ResultsOf(ptask, i, argv.count))]]_vars
    /\ [][stats' # stats =>
             \/ \E i \in 1..Len(valid_hosts) : FoldOf(i)
             \/ \E i \in 1..Len(valid_hosts) :
                   /\ htask[i].pc = "new" /\ htask'[i].pc = "gather"
                   /\ stats' = Append(stats, NewHostStats(valid_hosts[i]))]_vars
    /\ [][\A i \in DOMAIN htask :
             htask[i].pc = "done" => htask'[i].pc = "done"]_vars
    /\ [](prog = "bench" /\ pc = "exit" /\ argv.count >= 1 =>
             \A k \in 1..Len(stats) :
                 SumOfCounts(stats[k]) = argv.count * Listings(k))

\* a run of bench.py over the same URL listed twice has ended: its one
\* HostStats holds the two batches
C16_Witness ==
    /\ prog = "bench" /\ pc = "exit" /\ argv.count = 2
    /\ Len(valid_hosts) = 2 /\ SameHost(1, 2)
    /\ Len(stats) = 1 /\ SumOfCounts(stats[1]) = 4

\* C17: ServerBenchmark.run_tests applies no concurrency ceiling: no fetch_url
\* ever waits for a slot, and once every task has had its first run and no
\* GET has ended yet, all K * C fetch_url calls are in flight at the same
\* time, also when K * C exceeds 10.
C17_NoCeiling ==
    prog = "bench" =>
        /\ \A p \in DOMAIN ptask : ptask[p].pc # "waiting"
        /\ waiters = <<>> /\ sem = SemaphoreSize
        /\ (pc = "running" /\ ready = <<>>
              /\ \A p \in DOMAIN ptask : ptask[p].pc # "done") =>
              Count(InFlight) = Len(valid_hosts) * argv.count

\* 11 or more fetch_url calls, all there are, are in flight at the same time
C17_Witness ==
    /\ prog = "bench"
    /\ Count(InFlight) = Len(valid_hosts) * argv.count
    /\ Count(InFlight) > SemaphoreSize

\* the results the probes of target i returned, in submission order
BatchOf(i) == [j \in 1..argv.count |-> ptask[<<i, j>>].result[1]]

\* the URL a result record carries
ProbedUrl(r) == IF prog = "bench" THEN r.host ELSE r.url

\* C19: results are attributed to the host that was probed, whatever the
\* completion order: every result carries the URL of its probe; in
\* bench_async.py the i-th block of the report is computed from the results
\* of the probes of the i-th URL; in bench.py every result folded into
\* stats[h] has host = h.
C19_Attribution ==
    /\ [](\A p \in DOMAIN ptask :
             ptask[p].pc = "done" =>
                 ProbedUrl(ptask[p].result[1]) = valid_hosts[p[1]])
    /\ []((prog = "bench_async" /\ pc = "exit" /\ Report # <<>>) =>
             /\ Len(Report) = Len(valid_hosts)
             /\ \A i \in 1..Len(valid_hosts) :
                   Report[i] = ResultBlock(valid_hosts[i], BatchOf(i)))
    /\ [][\A i \in 1..Len(valid_hosts) :
             FoldOf(i) =>
                 LET k == StatsIndex(stats, valid_hosts[i])
                 IN  /\ k \in 1..Len(stats)
                     /\ \A r \in Range(BatchOf(i)) : r.host = stats[k].host
                     /\ stats' = [stats EXCEPT ![k] = Fold(@, BatchOf(i))]]_vars

\* a run of bench_async.py over two different URLs has ended with a report:
\* the probe of the first succeeded and the probe of the second timed out
C19_Witness ==
    /\ prog = "bench_async" /\ pc = "exit" /\ argv.count = 1
    /\ Len(Report) = 2 /\ Report[1].host # Report[2].host
    /\ Report[1].success = 1 /\ Report[2].errors = 1
    /\ ptask[<<1, 1>>].result[1].success
    /\ ptask[<<2, 1>>].result[1].error = Some("Timeout")

====
